---- MODULE Spec2Model ----
(***************************************************************************)
(* Cohort construction of scripts/01_build_cohort_survival.py (main).      *)
(* The orders frame and the customers frame are the inputs; the pipeline   *)
(* computes snapshot_ts, joins the customer mapping, selects the index     *)
(* order per customer_unique_id, selects the first repurchase after t0,    *)
(* assembles event/duration_days and applies the validity filter.          *)
(*                                                                         *)
(* Timestamps are whole days 1..MaxTime; NaT is the missing timestamp.     *)
(* order_id is the key of the orders frame: row i of the input carries     *)
(* order_id i (ids are only ever compared for equality).  customer_id is   *)
(* the key of the customers frame (a many-to-one mapping).                 *)
(***************************************************************************)
EXTENDS Integers, Sequences, FiniteSets

VARIABLES pc, raw, customers, orders, snapshot_ts, index_orders, first_rep, cohort

vars == <<pc, raw, customers, orders, snapshot_ts, index_orders, first_rep, cohort>>

\* ---------------------------------------------------------------- bounds
MaxOrders == 3
MaxTime == 3

\* ---------------------------------------------------------------- values
NaT == 0
NaN == 0 - 99
NoId == 0
NA == "<NA>"

Times == 1..MaxTime
Stamps == {NaT} \cup Times
Statuses == {"delivered", "shipped", "canceled", "unavailable", NA}
CustomerIds == {"c1", "c2"}

excluded_statuses == {"canceled", "unavailable"}

\* The customers frames: both ids of one customer, two customers (listed
\* against the key order), one id without a mapping row, no mapping rows.
OneCustomer == << [customer_id |-> "c1", customer_unique_id |-> 1] >>

CustomerTables ==
  { << [customer_id |-> "c1", customer_unique_id |-> 1],
       [customer_id |-> "c2", customer_unique_id |-> 1] >>,
    << [customer_id |-> "c2", customer_unique_id |-> 1],
       [customer_id |-> "c1", customer_unique_id |-> 2] >>,
    OneCustomer,
    << >> }

OrderFields(cids) ==
  [customer_id : cids, order_status : Statuses,
   purchase_dt : Stamps, delivery_dt : Stamps]

\* The orders frame after read_csv and to_datetime: row i has order_id i.
WithIds(rows) ==
  [i \in 1..Len(rows) |->
     [order_id |-> i, customer_id |-> rows[i].customer_id,
      order_status |-> rows[i].order_status,
      purchase_dt |-> rows[i].purchase_dt, delivery_dt |-> rows[i].delivery_dt]]

\* The rows of n orders spread over both customer ids (n < MaxOrders).
WideRows(n) == [1..n -> OrderFields(CustomerIds)]

\* The rows of MaxOrders orders of one customer id.
DeepRows == [1..MaxOrders -> OrderFields({"c1"})]

\* ---------------------------------------------------------------- frames
Range(s) == {s[i] : i \in 1..Len(s)}

SetMax(S) == CHOOSE x \in S : \A y \in S : y <= x

\* The snapshot taken over the delivered orders only.
MaxPurchaseDelivered(ords) ==
  LET present == {ords[i].purchase_dt :
                    i \in {j \in 1..Len(ords) : ords[j].order_status = "delivered"}} \ {NaT}
  IN IF present = {} THEN NaT ELSE SetMax(present)

\* Series.max(): the largest non-missing value, NaT when there is none.
MaxPurchase(ords) ==
  LET present == {ords[i].purchase_dt : i \in 1..Len(ords)} \ {NaT}
  IN IF present = {} THEN NaT ELSE SetMax(present)

\* Comparison of timestamps: any comparison with NaT is False.
Gt(a, b) == a # NaT /\ b # NaT /\ a > b

\* The rows of one order joined with its matching mapping rows.
MatchRows(o, custs) ==
  LET hits == SelectSeq(custs, LAMBDA c : c.customer_id = o.customer_id)
  IN [k \in 1..Len(hits) |->
        [order_id |-> o.order_id,
         customer_id |-> o.customer_id,
         order_status |-> o.order_status,
         purchase_dt |-> o.purchase_dt,
         delivery_dt |-> o.delivery_dt,
         customer_unique_id |-> hits[k].customer_unique_id]]

\* orders.merge(customers[[...]], on="customer_id", how="inner"): the rows of
\* the left frame in order, each with its matching mapping rows.
RECURSIVE MergeCustomers(_, _)
MergeCustomers(ords, custs) ==
  IF ords = << >> THEN << >>
  ELSE MatchRows(Head(ords), custs) \o MergeCustomers(Tail(ords), custs)

\* sort_values on several columns is a stable lexicographic sort: a row goes
\* after every row that is smaller, and after every equal row that came first.
\* keys[i] is the tuple of sort-column values of row i.
RECURSIVE LexLess(_, _)
LexLess(a, b) ==
  /\ a # << >>
  /\ \/ Head(a) < Head(b)
     \/ Head(a) = Head(b) /\ LexLess(Tail(a), Tail(b))

StableSort(s, keys) ==
  LET Rank(i) ==
        1 + Cardinality({j \in 1..Len(s) :
                           \/ LexLess(keys[j], keys[i])
                           \/ ~LexLess(keys[i], keys[j]) /\ j < i})
  IN [k \in 1..Len(s) |-> s[CHOOSE i \in 1..Len(s) : Rank(i) = k]]

\* The keys of a groupby in sorted order.
RECURSIVE SortedKeys(_)
SortedKeys(S) ==
  IF S = {} THEN << >>
  ELSE LET m == CHOOSE x \in S : \A y \in S : x <= y
       IN <<m>> \o SortedKeys(S \ {m})

GroupKeys(frame) == SortedKeys({frame[i].customer_unique_id : i \in 1..Len(frame)})

Group(frame, key) == SelectSeq(frame, LAMBDA r : r.customer_unique_id = key)

\* GroupBy.first(): per column, the first value of the group that is present.
FirstPresent(column, missing) ==
  LET present == {i \in 1..Len(column) : column[i] # missing}
  IN IF present = {} THEN missing
     ELSE column[CHOOSE i \in present : \A j \in present : i <= j]

\* ---------------------------------------------------------------- index order
IsDelivered(r) ==
  /\ r.order_status = "delivered"
  /\ r.delivery_dt # NaT
  /\ r.purchase_dt # NaT

\* The sort keys with purchase_dt ahead of delivery_dt.
DeliveredKeysSwapped(r) == <<r.customer_unique_id, r.purchase_dt, r.delivery_dt>>

\* The columns of sort_values(["customer_unique_id", "delivery_dt", "purchase_dt"]).
DeliveredKeys(r) == <<r.customer_unique_id, r.delivery_dt, r.purchase_dt>>

\* The renamed columns of every sorted row, without the groupby.
IndexEveryRow(sorted) ==
  [k \in 1..Len(sorted) |->
     [customer_unique_id |-> sorted[k].customer_unique_id,
      index_order_id |-> sorted[k].order_id,
      p0 |-> sorted[k].purchase_dt,
      t0 |-> sorted[k].delivery_dt]]

IndexFirst(sorted) ==
  LET keys == GroupKeys(sorted)
  IN [k \in 1..Len(keys) |->
        LET g == Group(sorted, keys[k])
        IN [customer_unique_id |-> keys[k],
            index_order_id |-> FirstPresent([i \in 1..Len(g) |-> g[i].order_id], NoId),
            p0 |-> FirstPresent([i \in 1..Len(g) |-> g[i].purchase_dt], NaT),
            t0 |-> FirstPresent([i \in 1..Len(g) |-> g[i].delivery_dt], NaT)]]

IndexOrdersOf(ords) ==
  LET delivered == SelectSeq(ords, IsDelivered)
  IN IndexFirst(StableSort(delivered,
                           [i \in 1..Len(delivered) |-> DeliveredKeys(delivered[i])]))

\* ---------------------------------------------------------------- repurchase
\* The status mask without the excluded set.
valid_status_mask_notna(r) == r.order_status # NA

valid_status_mask(r) ==
  r.order_status # NA /\ r.order_status \notin excluded_statuses

\* candidates.merge(index_orders[["customer_unique_id", "t0"]], how="inner")
RECURSIVE MergeT0(_, _)
MergeT0(ords, idx) ==
  IF ords = << >> THEN << >>
  ELSE LET o == Head(ords)
           hits == SelectSeq(idx, LAMBDA x : x.customer_unique_id = o.customer_unique_id)
       IN [k \in 1..Len(hits) |->
             [order_id |-> o.order_id,
              customer_unique_id |-> o.customer_unique_id,
              order_status |-> o.order_status,
              purchase_dt |-> o.purchase_dt,
              t0 |-> hits[k].t0]]
          \o MergeT0(Tail(ords), idx)

\* The temporal filter with >= in place of >.
AfterT0NotStrict(c) == c.purchase_dt # NaT /\ c.purchase_dt >= c.t0

AfterT0(c) == c.purchase_dt # NaT /\ Gt(c.purchase_dt, c.t0)

\* The columns of sort_values(["customer_unique_id", "purchase_dt"]).
CandidateKeys(c) == <<c.customer_unique_id, c.purchase_dt>>

RepFirst(sorted) ==
  LET keys == GroupKeys(sorted)
  IN [k \in 1..Len(keys) |->
        LET g == Group(sorted, keys[k])
        IN [customer_unique_id |-> keys[k],
            repurchase_order_id |-> FirstPresent([i \in 1..Len(g) |-> g[i].order_id], NoId),
            p1 |-> FirstPresent([i \in 1..Len(g) |-> g[i].purchase_dt], NaT),
            repurchase_order_status |->
              FirstPresent([i \in 1..Len(g) |-> g[i].order_status], NA)]]

FirstRepOf(ords, idx) ==
  LET candidates == SelectSeq(MergeT0(SelectSeq(ords, valid_status_mask), idx), AfterT0)
  IN RepFirst(StableSort(candidates,
                         [i \in 1..Len(candidates) |-> CandidateKeys(candidates[i])]))

\* ---------------------------------------------------------------- outcome
\* Difference of two timestamps in days; missing when either is missing.
Days(a, b) == IF a = NaT \/ b = NaT THEN NaN ELSE a - b

\* The duration measured to the snapshot on both branches.
DurationToSnapshot(event, p1, t0, snap) == Days(snap, t0)

\* np.where(event == 1, p1 - t0, snapshot_ts - t0)
Duration(event, p1, t0, snap) == IF event = 1 THEN Days(p1, t0) ELSE Days(snap, t0)

\* One row of index_orders.merge(first_rep, how="left") with event and
\* duration_days: the repurchase columns are missing when no row matches.
LeftJoinRow(x, rep, snap) ==
  LET hits == SelectSeq(rep, LAMBDA r : r.customer_unique_id = x.customer_unique_id)
      rid == IF hits = << >> THEN NoId ELSE hits[1].repurchase_order_id
      p1 == IF hits = << >> THEN NaT ELSE hits[1].p1
      st == IF hits = << >> THEN NA ELSE hits[1].repurchase_order_status
      ev == IF p1 # NaT THEN 1 ELSE 0
  IN [customer_unique_id |-> x.customer_unique_id,
      index_order_id |-> x.index_order_id,
      p0 |-> x.p0,
      t0 |-> x.t0,
      repurchase_order_id |-> rid,
      p1 |-> p1,
      repurchase_order_status |-> st,
      event |-> ev,
      duration_days |-> Duration(ev, p1, x.t0, snap)]

\* The join as an inner join: rows without a repurchase are lost.
AssembleInner(idx, rep, snap) ==
  SelectSeq([k \in 1..Len(idx) |-> LeftJoinRow(idx[k], rep, snap)],
            LAMBDA r : r.event = 1)

AssembleOf(idx, rep, snap) ==
  [k \in 1..Len(idx) |-> LeftJoinRow(idx[k], rep, snap)]

\* The validity filter with > in place of >=.
ValidDurationPositive(r) == r.duration_days # NaN /\ r.duration_days > 0

ValidDuration(r) == r.duration_days # NaN /\ r.duration_days >= 0

\* The whole pipeline on an orders frame and a customers frame.
CohortOf(ords, custs) ==
  LET merged == MergeCustomers(ords, custs)
      idx == IndexOrdersOf(merged)
      rep == FirstRepOf(merged, idx)
  IN SelectSeq(AssembleOf(idx, rep, MaxPurchase(ords)), ValidDuration)

\* ---------------------------------------------------------------- the run
Init ==
  /\ pc = "read"
  /\ \/ /\ \E n \in 0..(MaxOrders - 1) : \E rows \in WideRows(n) : raw = WithIds(rows)
        /\ customers \in CustomerTables
     \/ /\ \E rows \in DeepRows : raw = WithIds(rows)
        /\ customers = OneCustomer
  /\ orders = raw
  /\ snapshot_ts = NaT
  /\ index_orders = << >>
  /\ first_rep = << >>
  /\ cohort = << >>

Snapshot ==
  /\ pc = "read"
  /\ snapshot_ts' = MaxPurchase(orders)
  /\ pc' = "snapshot"
  /\ UNCHANGED <<raw, customers, orders, index_orders, first_rep, cohort>>

Merge ==
  /\ pc = "snapshot"
  /\ orders' = MergeCustomers(orders, customers)
  /\ pc' = "merged"
  /\ UNCHANGED <<raw, customers, snapshot_ts, index_orders, first_rep, cohort>>

IndexOrders ==
  /\ pc = "merged"
  /\ index_orders' = IndexOrdersOf(orders)
  /\ pc' = "indexed"
  /\ UNCHANGED <<raw, customers, orders, snapshot_ts, first_rep, cohort>>

FirstRep ==
  /\ pc = "indexed"
  /\ first_rep' = FirstRepOf(orders, index_orders)
  /\ pc' = "candidates"
  /\ UNCHANGED <<raw, customers, orders, snapshot_ts, index_orders, cohort>>

Assemble ==
  /\ pc = "candidates"
  /\ cohort' = AssembleOf(index_orders, first_rep, snapshot_ts)
  /\ pc' = "assembled"
  /\ UNCHANGED <<raw, customers, orders, snapshot_ts, index_orders, first_rep>>

Validate ==
  /\ pc = "assembled"
  /\ cohort' = SelectSeq(cohort, ValidDuration)
  /\ pc' = "done"
  /\ UNCHANGED <<raw, customers, orders, snapshot_ts, index_orders, first_rep>>

Next == Snapshot \/ Merge \/ IndexOrders \/ FirstRep \/ Assemble \/ Validate

Spec == Init /\ [][Next]_vars

\* ---------------------------------------------------------------- properties
\* What the input says, read off raw and customers without the pipeline.
EntitiesOfOrder(o) ==
  {c.customer_unique_id : c \in {x \in Range(customers) : x.customer_id = o.customer_id}}

EntityIds == {c.customer_unique_id : c \in Range(customers)}

OrdersOf(u) == {o \in Range(raw) : u \in EntitiesOfOrder(o)}

Qualifying(u) ==
  {o \in OrdersOf(u) :
     o.order_status = "delivered" /\ o.purchase_dt # NaT /\ o.delivery_dt # NaT}

FollowUps(u, t0) ==
  {o \in OrdersOf(u) :
     /\ o.order_status # NA
     /\ o.order_status \notin {"canceled", "unavailable"}
     /\ o.purchase_dt # NaT
     /\ o.purchase_dt > t0}

RowsOf(frame, u) == {i \in 1..Len(frame) : frame[i].customer_unique_id = u}

Indexed == pc \in {"indexed", "candidates", "assembled", "done"}
Detected == pc \in {"candidates", "assembled", "done"}

\* C1: every row of the final cohort with event = 1 has p1 strictly after t0,
\* every row with event = 0 has snapshot_ts at or after t0, and every
\* retained row has a duration that is present and not negative.
NoLeakage ==
  pc = "done" =>
    \A r \in Range(cohort) :
      /\ r.event \in {0, 1}
      /\ r.event = 1 => r.p1 # NaT /\ r.p1 > r.t0
      /\ r.event = 0 => snapshot_ts # NaT /\ snapshot_ts >= r.t0
      /\ r.duration_days # NaN /\ r.duration_days >= 0

\* A repurchase was found although another valid order of the customer was
\* purchased exactly at t0.
NoLeakageWitness ==
  /\ pc = "done"
  /\ \E r \in Range(cohort) :
       /\ r.event = 1
       /\ \E o \in OrdersOf(r.customer_unique_id) :
            /\ o.order_id # r.index_order_id
            /\ o.order_status = "shipped"
            /\ o.purchase_dt = r.t0

\* C2: for every entity with a mapped delivered order that has both
\* timestamps, the index order is one of those orders, with the earliest
\* delivery timestamp and, among those, the earliest purchase timestamp.
IndexSelection ==
  Indexed =>
    \A u \in EntityIds :
      Qualifying(u) # {} =>
        /\ Cardinality(RowsOf(index_orders, u)) = 1
        /\ \A i \in RowsOf(index_orders, u) :
             \E o \in Qualifying(u) :
               /\ index_orders[i].index_order_id = o.order_id
               /\ index_orders[i].p0 = o.purchase_dt
               /\ index_orders[i].t0 = o.delivery_dt
               /\ \A q \in Qualifying(u) :
                    \/ o.delivery_dt < q.delivery_dt
                    \/ o.delivery_dt = q.delivery_dt /\ o.purchase_dt <= q.purchase_dt

\* Two delivered orders of one entity share the delivery timestamp, and the
\* one purchased earlier, which comes later in the input, is the index order.
IndexSelectionWitness ==
  /\ Indexed
  /\ \E u \in EntityIds : \E a, b \in Qualifying(u) :
       /\ a.order_id < b.order_id
       /\ a.delivery_dt = b.delivery_dt
       /\ b.purchase_dt < a.purchase_dt
       /\ \E i \in RowsOf(index_orders, u) : index_orders[i].index_order_id = b.order_id

\* C3: for every indexed entity the follow-up is the order with the earliest
\* purchase timestamp among its orders with a present, non-excluded status
\* purchased strictly after t0; there is no follow-up row when none qualifies.
FollowUpSelection ==
  Detected =>
    /\ \A i \in 1..Len(index_orders) :
         LET u == index_orders[i].customer_unique_id
             cands == FollowUps(u, index_orders[i].t0)
         IN IF cands = {} THEN RowsOf(first_rep, u) = {}
            ELSE /\ Cardinality(RowsOf(first_rep, u)) = 1
                 /\ \A k \in RowsOf(first_rep, u) :
                      \E o \in cands :
                        /\ first_rep[k].repurchase_order_id = o.order_id
                        /\ first_rep[k].p1 = o.purchase_dt
                        /\ first_rep[k].repurchase_order_status = o.order_status
                        /\ \A q \in cands : o.purchase_dt <= q.purchase_dt
    /\ \A k \in 1..Len(first_rep) :
         RowsOf(index_orders, first_rep[k].customer_unique_id) # {}

\* The earliest order after t0 is canceled and the next one is the follow-up.
FollowUpSelectionWitness ==
  /\ Detected
  /\ \E i \in 1..Len(index_orders) : \E k \in 1..Len(first_rep) :
       /\ first_rep[k].customer_unique_id = index_orders[i].customer_unique_id
       /\ first_rep[k].repurchase_order_id # index_orders[i].index_order_id
       /\ \E o \in OrdersOf(index_orders[i].customer_unique_id) :
            /\ o.order_status = "canceled"
            /\ o.purchase_dt # NaT
            /\ o.purchase_dt > index_orders[i].t0
            /\ o.purchase_dt < first_rep[k].p1

\* C4: once computed, snapshot_ts is the largest purchase timestamp present
\* in the orders as read, whatever the join and the filters remove later.
SnapshotFromRaw ==
  pc # "read" =>
    LET present == {o.purchase_dt : o \in Range(raw)} \ {NaT}
    IN IF present = {} THEN snapshot_ts = NaT
       ELSE /\ snapshot_ts \in present
            /\ \A t \in present : t <= snapshot_ts

\* The latest purchase belongs to an order the join removed, and the cohort
\* still has a row censored at that snapshot.
SnapshotFromRawWitness ==
  /\ pc = "done"
  /\ snapshot_ts # NaT
  /\ \A i \in 1..Len(orders) : orders[i].purchase_dt # snapshot_ts
  /\ \E r \in Range(cohort) : r.event = 0

\* The same rows, each keeping its order_id, in another row order.
Perms(n) == {f \in [1..n -> 1..n] : \A i, j \in 1..n : f[i] = f[j] => i = j}
Permuted(frame, f) == [i \in 1..Len(frame) |-> frame[f[i]]]

\* C5: the same orders and mappings in any other row order give the same
\* cohort: the same rows in the same order with the same values.
RowOrderIndependence ==
  pc = "done" =>
    \A f \in Perms(Len(raw)) : \A g \in Perms(Len(customers)) :
      CohortOf(Permuted(raw, f), Permuted(customers, g)) = cohort

\* C6: event = 1 exactly for the entities with a follow-up row; the duration
\* is p1 - t0 for them and snapshot_ts - t0 for the others.
OutcomeAssembly ==
  pc \in {"assembled", "done"} =>
    \A r \in Range(cohort) :
      LET reps == RowsOf(first_rep, r.customer_unique_id)
      IN /\ r.event = 1 <=> reps # {}
         /\ r.event = 0 <=> reps = {}
         /\ r.event = 1 =>
              /\ \A k \in reps : r.p1 = first_rep[k].p1
              /\ r.duration_days = r.p1 - r.t0
         /\ r.event = 0 =>
              /\ snapshot_ts # NaT
              /\ r.duration_days = snapshot_ts - r.t0

\* Delivered on day 1, a canceled order on day 2, a shipped order on day 3:
\* the shipped order is the event and the duration is 2 days.
OutcomeAssemblyWitness ==
  /\ pc = "done"
  /\ \E r \in Range(cohort) :
       /\ r.t0 = 1
       /\ r.event = 1
       /\ r.repurchase_order_status = "shipped"
       /\ r.duration_days = 2
       /\ \E o \in OrdersOf(r.customer_unique_id) :
            o.order_status = "canceled" /\ o.purchase_dt = 2

\* The duration the outcome of an index row must have, from the follow-up
\* table and the snapshot.
ExpectedDuration(x) ==
  LET reps == RowsOf(first_rep, x.customer_unique_id)
  IN IF reps # {} THEN first_rep[CHOOSE k \in reps : TRUE].p1 - x.t0
     ELSE IF snapshot_ts = NaT THEN NaN
     ELSE snapshot_ts - x.t0

EntitiesIn(frame) == {frame[i].customer_unique_id : i \in 1..Len(frame)}

\* C7: the indexed entities are those with a mapped delivered order that has
\* both timestamps; the join keeps every one of them; the final cohort holds
\* exactly those whose duration is present and not negative.
CohortMembership ==
  /\ Indexed => EntitiesIn(index_orders) = {u \in EntityIds : Qualifying(u) # {}}
  /\ pc = "assembled" => EntitiesIn(cohort) = EntitiesIn(index_orders)
  /\ pc = "done" =>
       EntitiesIn(cohort) =
         {x.customer_unique_id :
            x \in {y \in Range(index_orders) :
                     ExpectedDuration(y) # NaN /\ ExpectedDuration(y) >= 0}}

\* One entity's only order is shipped and it is in neither table, while an
\* entity without a follow-up is kept as an event = 0 row.
CohortMembershipWitness ==
  /\ pc = "done"
  /\ \E u \in EntityIds :
       /\ \E o \in OrdersOf(u) : o.order_status = "shipped"
       /\ u \notin EntitiesIn(index_orders)
       /\ u \notin EntitiesIn(cohort)
  /\ \E r \in Range(cohort) : r.event = 0 /\ r.p1 = NaT

OnePerEntity(frame) ==
  \A i, j \in 1..Len(frame) :
    frame[i].customer_unique_id = frame[j].customer_unique_id => i = j

\* C8: index_orders, first_rep and cohort never hold two rows of one entity.
OneRowPerEntity ==
  /\ OnePerEntity(index_orders)
  /\ OnePerEntity(first_rep)
  /\ OnePerEntity(cohort)

\* Two customer ids of one entity each have a delivered order, and the cohort
\* has that entity's row.
OneRowPerEntityWitness ==
  /\ pc = "done"
  /\ \E u \in EntityIds : \E a, b \in Qualifying(u) :
       /\ a.customer_id # b.customer_id
       /\ u \in EntitiesIn(cohort)

\* C9: the follow-up of an event = 1 row is another order than the index
\* order.
FollowUpIsAnotherOrder ==
  pc = "done" =>
    \A r \in Range(cohort) :
      r.event = 1 => r.repurchase_order_id # r.index_order_id

\* C10: an entity with a follow-up has t0 < p1 <= snapshot_ts and stays in
\* the cohort; the indexed entities that are dropped are those without a
\* follow-up whose t0 is after the snapshot (or whose snapshot is missing);
\* the cohort has no more rows than there are indexed entities.
ValidityFilterDrops ==
  pc = "done" =>
    /\ \A x \in Range(index_orders) :
         LET u == x.customer_unique_id
             reps == RowsOf(first_rep, u)
         IN /\ reps # {} =>
                 /\ u \in EntitiesIn(cohort)
                 /\ \A k \in reps :
                      /\ x.t0 < first_rep[k].p1
                      /\ snapshot_ts # NaT
                      /\ first_rep[k].p1 <= snapshot_ts
            /\ u \notin EntitiesIn(cohort) <=>
                 /\ reps = {}
                 /\ snapshot_ts = NaT \/ x.t0 > snapshot_ts
    /\ Len(cohort) <= Len(index_orders)

\* An indexed entity delivered after the last purchase of the input is
\* dropped.
ValidityFilterDropsWitness ==
  /\ pc = "done"
  /\ \E x \in Range(index_orders) :
       /\ x.customer_unique_id \notin EntitiesIn(cohort)
       /\ x.t0 > snapshot_ts
  /\ Len(cohort) < Len(index_orders)

====
